---- MODULE Spec2Model ----
(***************************************************************************)
(* Phone-verification orchestrator (PhoneVerification), SMS activation     *)
(* client (SMSAPI) and number reuse store (PhoneManager) of the            *)
(* gmail_adspower repository, as a state machine.                          *)
(*                                                                         *)
(* One orchestrator instance is created by GmailCreator.create_account and *)
(* handle_verification() is invoked on it.  The remote leasing service and *)
(* the web form are the environment: every answer they can give is a       *)
(* nondeterministic choice.  Time is counted in whole seconds.             *)
(***************************************************************************)
EXTENDS Integers, Sequences, FiniteSets, TLC

(***************************************************************************)
(* Bounds of the model                                                     *)
(***************************************************************************)
\* how many of the allow-listed countries the environment is run with
NumCountries == 2
\* how many handle_verification() calls are made on the one instance
MaxCalls == 2
\* number of distinct price levels the catalogue can quote
NumPrices == 2
\* extra seconds a remote or driver call may take beyond its fixed sleep
MaxDelay == 15
\* largest max_attempts a get_sms_code call on its own is given
MaxPolls == 3
\* how many times the store's clock advances by one reuse window
MaxTicks == 1
\* largest use count an entry of the reuse store is driven to
MaxUses == 2

(***************************************************************************)
(* Program constants                                                       *)
(***************************************************************************)
MAX_PHONE_ATTEMPTS == 3
sms_global_timeout == 180
max_resent_attempts == 2
initial_max_attempts == 6
poll_interval == 10
min_resend_time == 30
min_submit_time == 10
max_button_wait == 25
seconds_per_poll == 15
reload_sleep == 5
click_sleep == 3

\* SMSAPI.selected_countries, in dict (insertion) order
AllCountries == <<"151", "12", "40", "16", "117">>
selected_countries == SubSeq(AllCountries, 1, NumCountries)
CountrySet == {selected_countries[i] : i \in 1..Len(selected_countries)}

\* VerificationState values
INITIAL == "initial"
WAITING_SMS == "waiting_sms"
COMPLETED == "completed"
FAILED == "failed"
VerificationState ==
    {INITIAL, "number_requested", "number_received", "number_submitted",
     WAITING_SMS, "sms_received", "resending_sms", "failed_sms", COMPLETED, FAILED}

\* Optional[ActivationInfo]: None is the record with activation id 0
None == [activation_id |-> 0, phone_number |-> 0, country_code |-> "none"]
ActivationInfo(id, phone, country) ==
    [activation_id |-> id, phone_number |-> phone, country_code |-> country]

\* the phone number the leasing service hands out with activation id
PhoneOf(id) == 5550 + id

Delays == {0, MaxDelay}
PriceValues == {10 * k : k \in 1..NumPrices}

Min(a, b) == IF a < b THEN a ELSE b
Max(a, b) == IF a > b THEN a ELSE b

VARIABLES
    pc,                 \* position of the handle_verification() call
    calls,              \* number of handle_verification() calls started
    result,             \* return value of the call, once it has returned
    ret,                \* value about to be returned (before the finally block)
    state,              \* self.state
    current_activation, \* self.current_activation
    used_countries,     \* self.used_countries
    phone_number,       \* self.phone_number
    phone_manager,      \* self.phone_manager is set (TRUE) or None (FALSE)
    attempt_count,      \* local of handle_verification
    success,            \* local of handle_verification
    filtered_prices,    \* local of _get_new_number: countries still to try
    activation_id,      \* local of _handle_sms_verification
    sms_code,           \* local of _handle_sms_verification: a code was received
    resent_attempt,     \* local of _handle_sms_verification
    elapsed,            \* time.time() - sms_process_start
    latency,            \* seconds one getStatus request takes during this SMS wait
    numbers,            \* PhoneManager.numbers
    now,                \* wall clock read by the reuse store
    acts,               \* remote service: one record per purchased activation
    trace,              \* what the current call did so far
    op,                 \* the library call under study, its arguments and its result
    file,               \* the list stored in the storage file of the reuse store
    numbers2            \* PhoneManager.numbers of a second instance on the same file

orch == <<state, current_activation, used_countries, phone_number, phone_manager>>
locals == <<attempt_count, success, filtered_prices>>
sms == <<activation_id, sms_code, resent_attempt, elapsed, latency>>
store == <<numbers, now, op, file, numbers2>>
vars == <<pc, calls, result, ret, orch, locals, sms, store, acts, trace>>

(***************************************************************************)
(* Remote leasing service                                                  *)
(***************************************************************************)
\* a freshly purchased activation, as the remote service records it: the
\* country, the handle_verification() call that bought it, how many status
\* 6 and status 8 requests it received, and what happened in which order
NewAct(country, call) ==
    [country |-> country, call |-> call, six |-> 0, eight |-> 0,
     won |-> FALSE, six_after_won |-> FALSE, poll_after_six |-> FALSE]

NoActs == [i \in {} |-> NewAct("none", 0)]

\* activation ids are opaque tokens, never handed out twice: the n-th
\* purchase of call number c gets id 10 * c + n
NewId(call, n) == 10 * call + n

\* SMSAPI.set_status: the request reaches the remote service; the client
\* catches every error, so the call never raises
set_status(a, id, status) ==
    IF id \notin DOMAIN a THEN a
    ELSE [a EXCEPT ![id] =
            IF status = 6 THEN [@ EXCEPT !.six = @ + 1,
                                         !.six_after_won = @ \/ a[id].won]
            ELSE IF status = 8 THEN [@ EXCEPT !.eight = @ + 1]
            ELSE @]

\* SMSAPI.get_balance: None, or the amount on the account
NoBalance == [known |-> FALSE, amount |-> 0]
BalanceResults == {NoBalance} \cup {[known |-> TRUE, amount |-> a] : a \in {-1, 0, 1}}

(***************************************************************************)
(* Orchestrator helpers                                                    *)
(***************************************************************************)
\* _cancel_number without its test for a completed verification
cancel_number_unguarded(ca, st, used, a) ==
    IF ca = None THEN [ca |-> ca, used |-> used, acts |-> a]
    ELSE [ca |-> None,
          used |-> used \cup {ca.country_code},
          acts |-> set_status(a, ca.activation_id, 6)]

\* PhoneVerification._cancel_number, on (current_activation, state,
\* used_countries, remote)
cancel_number(ca, st, used, a) ==
    IF ca = None THEN [ca |-> ca, used |-> used, acts |-> a]
    ELSE IF st = COMPLETED THEN [ca |-> ca, used |-> used, acts |-> a]
    ELSE [ca |-> None,
          used |-> used \cup {ca.country_code},
          acts |-> set_status(a, ca.activation_id, 6)]

\* _cancel_current_number assigning the exclusion set instead of adding to it
cancel_current_number_replacing(ca, used, a) ==
    IF ca = None THEN [ca |-> ca, used |-> used, acts |-> a]
    ELSE [ca |-> None,
          used |-> {ca.country_code},
          acts |-> set_status(a, ca.activation_id, 6)]

\* _cancel_current_number without the final reset of current_activation
cancel_current_number_keeping(ca, used, a) ==
    IF ca = None THEN [ca |-> ca, used |-> used, acts |-> a]
    ELSE [ca |-> ca,
          used |-> used \cup {ca.country_code},
          acts |-> set_status(a, ca.activation_id, 6)]

\* a final cleanup that cancels nothing
ensure_final_cleanup_skipped(ca, st, used, a) == [ca |-> ca, used |-> used, acts |-> a]

\* PhoneVerification._ensure_final_cleanup
ensure_final_cleanup(ca, st, used, a) ==
    IF ca # None THEN cancel_number(ca, st, used, a)
    ELSE [ca |-> ca, used |-> used, acts |-> a]

\* PhoneVerification._cancel_current_number
cancel_current_number(ca, used, a) ==
    IF ca = None THEN [ca |-> ca, used |-> used, acts |-> a]
    ELSE [ca |-> None,
          used |-> used \cup {ca.country_code},
          acts |-> set_status(a, ca.activation_id, 6)]

\* the balance test with < in place of <=
balance_insufficient_strict(balance) == ~balance.known \/ balance.amount < 0

\* the balance test of _validate_initial_conditions
balance_insufficient(balance) == ~balance.known \/ balance.amount <= 0

\* _check_number_availability without the test available_count > 0
check_number_availability_any(stock, used) ==
    {c \in CountrySet : c \notin used}

\* _check_number_availability: stock maps each allow-listed country to the
\* count get_number_status reports; the result is available_numbers' keys
check_number_availability(stock, used) ==
    {c \in CountrySet : c \notin used /\ stock[c] > 0}

\* an attempt that is not counted
count_attempt_forgotten(n) == n

\* attempt_count += 1 at the top of the loop body
count_attempt(n) == n + 1

\* a re-affirmation of the phone step before every attempt, the first too
reaffirm_phone_screen_always(n) == TRUE

\* the phone step is re-affirmed from the second attempt on
reaffirm_phone_screen(n) == n > 1

\* the loop test with <= in place of <
loop_continues_inclusive(n) == n <= MAX_PHONE_ATTEMPTS

\* the loop test of handle_verification
loop_continues(n) == n < MAX_PHONE_ATTEMPTS

\* the country filter without the used_countries test
available_countries_unfiltered(used) == selected_countries

\* _get_new_number: allow-listed countries not in used_countries, in
\* allow-list order
available_countries(used) == SelectSeq(selected_countries, LAMBDA c : c \notin used)

\* _get_new_number: the price list of the available countries that the
\* catalogue quotes for the service (prices[c] = 0: country not quoted)
price_list(avail, prices) ==
    LET quoted == SelectSeq(avail, LAMBDA c : prices[c] > 0)
    IN [i \in 1..Len(quoted) |-> [country_code |-> quoted[i], price |-> prices[quoted[i]]]]

\* an insertion that puts x before the entries of equal price
RECURSIVE insert_sorted_before_equal(_, _)
insert_sorted_before_equal(x, s) ==
    IF s = <<>> THEN <<x>>
    ELSE IF x.price <= s[1].price THEN <<x>> \o s
    ELSE <<s[1]>> \o insert_sorted_before_equal(x, Tail(s))

\* list.sort(key=price): stable insertion of x into a sorted list
RECURSIVE insert_sorted(_, _)
insert_sorted(x, s) ==
    IF s = <<>> THEN <<x>>
    ELSE IF x.price < s[1].price THEN <<x>> \o s
    ELSE <<s[1]>> \o insert_sorted(x, Tail(s))

RECURSIVE sort_by_price(_)
sort_by_price(s) ==
    IF s = <<>> THEN <<>>
    ELSE insert_sorted(s[Len(s)], sort_by_price(SubSeq(s, 1, Len(s) - 1)))

\* _get_new_number up to the purchase loop: the sorted list of countries
\* to try; empty when the function returns None before any purchase
countries_to_try(used, prices) == sort_by_price(price_list(available_countries(used), prices))

\* PhoneVerification._submit_phone_number: what the form does with the
\* number decides the outcome.  Only the path where every format is
\* rejected runs _cancel_number; a phone field that never becomes clickable
\* and an error raised on the way both return False and cancel nothing.
SubmitOutcomes == {"accepted", "field_not_found", "exception", "rejected"}
submit_phone_number(outcome, ca, st, used, a) ==
    IF ca = None THEN [ok |-> FALSE, ca |-> ca, used |-> used, acts |-> a]
    ELSE IF outcome = "accepted" THEN [ok |-> TRUE, ca |-> ca, used |-> used, acts |-> a]
    ELSE IF outcome = "rejected"
         THEN [ok |-> FALSE] @@ cancel_number(ca, st, used, a)
    ELSE [ok |-> FALSE, ca |-> ca, used |-> used, acts |-> a]

\* the remote service notes a getStatus poll for an activation
note_poll(a, id) ==
    IF id \notin DOMAIN a THEN a
    ELSE [a EXCEPT ![id] = [@ EXCEPT !.poll_after_six = @ \/ a[id].six > 0]]

\* SMSAPI.get_sms_code(activation_id, max_attempts, interval): answers is
\* what the remote service replies to the successive getStatus polls, lat
\* the seconds one request takes.  The result says whether a code came
\* back, whether the client sent status 3 or status 6, how many polls were
\* made and how long the call took.
RECURSIVE poll_loop(_, _, _, _, _)
poll_loop(answers, attempt, max, lat, t) ==
    IF attempt >= max
    THEN [code |-> FALSE, three |-> FALSE, six |-> TRUE, polls |-> attempt, duration |-> t]
    ELSE LET answer == IF attempt + 1 <= Len(answers) THEN answers[attempt + 1]
                       ELSE "STATUS_WAIT"
         IN IF answer = "STATUS_OK"
            THEN [code |-> TRUE, three |-> TRUE, six |-> FALSE,
                  polls |-> attempt + 1, duration |-> t + lat]
            ELSE IF answer = "STATUS_CANCEL"
            THEN [code |-> FALSE, three |-> FALSE, six |-> FALSE,
                  polls |-> attempt + 1, duration |-> t + lat]
            ELSE poll_loop(answers, attempt + 1, max, lat, t + lat + poll_interval)

\* get_sms_code polling once more than max_attempts
get_sms_code_one_more(answers, max, lat) == poll_loop(answers, 0, max + 1, lat, 0)

get_sms_code(answers, max, lat) == poll_loop(answers, 0, max, lat, 0)

\* what one get_sms_code call leaves in the remote records
sms_code_effect(a, id, r) ==
    LET polled == IF r.polls > 0 THEN note_poll(a, id) ELSE a
        coded  == IF r.three THEN set_status(polled, id, 3) ELSE polled
    IN IF r.six THEN set_status(coded, id, 6) ELSE coded

\* the replies the remote service may give to at most max polls: the code
\* at the first or at the last poll, a cancel signal at the first, or no news
AnswerAt(k, a) == [i \in 1..k |-> IF i < k THEN "STATUS_WAIT" ELSE a]
AnswerSeqs(max) ==
    {AnswerAt(k, "STATUS_OK") : k \in {1, max}}
    \cup {AnswerAt(1, "STATUS_CANCEL"), AnswerAt(max, "STATUS_WAIT")}

\* max_sms_attempts of a re-poll: max(1, min(6, int(remaining_time / 15)))
max_sms_attempts(remaining) ==
    Max(1, Min(initial_max_attempts, remaining \div seconds_per_poll))

\* wait_time before the resend button is looked for: min(25, remaining / 2)
wait_time(remaining) == Min(max_button_wait, remaining \div 2)

\* a write that keeps the stored entries whose phone number the list lacks
save_numbers_merging(f, nums) ==
    nums \o SelectSeq(f, LAMBDA e : \A i \in 1..Len(nums) :
                                       nums[i].phone_number # e.phone_number)

\* a write that is put off: the file keeps what it held
save_numbers_skipped(f, nums) == f

\* PhoneManager._save_numbers: the file is rewritten with json.dump of the
\* whole list.  The entries hold only strings, numbers and lists of
\* strings, which json.dump and json.load give back unchanged, so the stored
\* list stands for the file content
save_numbers(f, nums) == nums

\* PhoneManager._load_numbers: json.load of the file, the empty list when
\* the file does not exist
load_numbers(f) == f

\* what add_number returns: False when one of the three identifying
\* arguments is empty (0 and "none" stand for the empty values)
add_number_result(phone, country, id) == ~(phone = 0 \/ country = "none" \/ id = 0)

\* an add_number that never looks for an existing entry
add_number_always_new(nums, phone, country, id, service, t) ==
    IF phone = 0 \/ country = "none" \/ id = 0 THEN nums
    ELSE Append(nums, [phone_number |-> phone, country_code |-> country,
                       activation_id |-> id, first_used |-> t, last_used |-> t,
                       services |-> <<service>>, times_used |-> 1])

\* PhoneManager.add_number
add_number(nums, phone, country, id, service, t) ==
    IF phone = 0 \/ country = "none" \/ id = 0 THEN nums
    ELSE IF \E i \in 1..Len(nums) : nums[i].phone_number = phone
    THEN LET i == CHOOSE j \in 1..Len(nums) :
                     /\ nums[j].phone_number = phone
                     /\ \A k \in 1..(j - 1) : nums[k].phone_number # phone
         IN [nums EXCEPT ![i] =
                [@ EXCEPT !.last_used = t,
                          !.times_used = @ + 1,
                          !.services = IF \E k \in 1..Len(@) : @[k] = service
                                       THEN @ ELSE Append(@, service)]]
    ELSE Append(nums, [phone_number |-> phone, country_code |-> country,
                       activation_id |-> id, first_used |-> t, last_used |-> t,
                       services |-> <<service>>, times_used |-> 1])

\* PhoneManager.reuse_window, in seconds
reuse_window == 1800

\* PhoneManager.get_reusable_number up to the choice among the valid
\* numbers: the entries left by _cleanup_expired_numbers that were used less
\* than reuse_window ago and not yet for the service
reusable_numbers(nums, service, t) ==
    LET kept == SelectSeq(nums, LAMBDA n : t - n.first_used < reuse_window)
    IN SelectSeq(kept, LAMBDA n :
           /\ t - n.last_used < reuse_window
           /\ \A k \in 1..Len(n.services) : n.services[k] # service)

(***************************************************************************)
(* PhoneManager operations, on (numbers, arguments, time.time())           *)
(***************************************************************************)
\* `service in number["services"]`
tagged(n, service) == \E k \in 1..Len(n.services) : n.services[k] = service

\* the position of the first entry with the phone number, 0 if there is none
first_with(nums, phone) ==
    IF \E i \in 1..Len(nums) : nums[i].phone_number = phone
    THEN CHOOSE i \in 1..Len(nums) :
             /\ nums[i].phone_number = phone
             /\ \A k \in 1..(i - 1) : nums[k].phone_number # phone
    ELSE 0

\* a purge that measures the window from last_used
cleanup_expired_numbers_by_last_use(nums, t) ==
    SelectSeq(nums, LAMBDA n : t - n.last_used < reuse_window)

\* PhoneManager._cleanup_expired_numbers
cleanup_expired_numbers(nums, t) ==
    SelectSeq(nums, LAMBDA n : t - n.first_used < reuse_window)

\* the positions of valid_numbers in the store left by the purge
valid_numbers(nums, service, t) ==
    SelectSeq([i \in 1..Len(nums) |-> i], LAMBDA i :
        /\ t - nums[i].last_used < reuse_window
        /\ ~tagged(nums[i], service))

\* an insertion that puts i before the entries of equal use count
RECURSIVE insert_by_times_used_before_equal(_, _, _)
insert_by_times_used_before_equal(nums, i, s) ==
    IF s = <<>> THEN <<i>>
    ELSE IF nums[i].times_used <= nums[s[1]].times_used THEN <<i>> \o s
    ELSE <<s[1]>> \o insert_by_times_used_before_equal(nums, i, Tail(s))

\* valid_numbers.sort(key=times_used): stable insertion of position i
RECURSIVE insert_by_times_used(_, _, _)
insert_by_times_used(nums, i, s) ==
    IF s = <<>> THEN <<i>>
    ELSE IF nums[i].times_used < nums[s[1]].times_used THEN <<i>> \o s
    ELSE <<s[1]>> \o insert_by_times_used(nums, i, Tail(s))

RECURSIVE sort_by_times_used(_, _)
sort_by_times_used(nums, s) ==
    IF s = <<>> THEN <<>>
    ELSE insert_by_times_used(nums, s[Len(s)],
                              sort_by_times_used(nums, SubSeq(s, 1, Len(s) - 1)))

\* the value None as get_reusable_number returns it
NoNumber ==
    [phone_number |-> 0, country_code |-> "none", activation_id |-> 0,
     first_used |-> 0, last_used |-> 0, services |-> <<>>, times_used |-> 0]

\* a checkout that does not tag the entry with the service
get_reusable_number_untagged(nums, service, t) ==
    LET kept == cleanup_expired_numbers(nums, t)
        valid == sort_by_times_used(kept, valid_numbers(kept, service, t))
    IN IF valid = <<>> THEN [numbers |-> kept, ret |-> NoNumber]
       ELSE LET selected == [kept[valid[1]] EXCEPT !.last_used = t, !.times_used = @ + 1]
            IN [numbers |-> [kept EXCEPT ![valid[1]] = selected], ret |-> selected]

\* PhoneManager.get_reusable_number: the store it leaves and what it returns
get_reusable_number(nums, service, t) ==
    LET kept == cleanup_expired_numbers(nums, t)
        valid == sort_by_times_used(kept, valid_numbers(kept, service, t))
    IN IF valid = <<>> THEN [numbers |-> kept, ret |-> NoNumber]
       ELSE LET selected == [kept[valid[1]] EXCEPT !.last_used = t,
                                                   !.times_used = @ + 1,
                                                   !.services = Append(@, service)]
            IN [numbers |-> [kept EXCEPT ![valid[1]] = selected], ret |-> selected]

\* a mark_number_used that writes the time into first_used
mark_number_used_as_first(nums, phone, service, t) ==
    LET i == first_with(nums, phone)
    IN IF i = 0 THEN [numbers |-> nums, ret |-> FALSE]
       ELSE [numbers |-> [nums EXCEPT ![i] = [@ EXCEPT !.first_used = t,
                                                       !.times_used = @ + 1]],
             ret |-> TRUE]

\* PhoneManager.mark_number_used
mark_number_used(nums, phone, service, t) ==
    LET i == first_with(nums, phone)
    IN IF i = 0 THEN [numbers |-> nums, ret |-> FALSE]
       ELSE [numbers |-> [nums EXCEPT ![i] =
                            [@ EXCEPT !.last_used = t,
                                      !.times_used = @ + 1,
                                      !.services = IF tagged(nums[i], service)
                                                   THEN @ ELSE Append(@, service)]],
             ret |-> TRUE]

\* a remove_number that also drops the entries stored after the match
remove_number_truncating(nums, phone) ==
    LET i == first_with(nums, phone)
    IN IF i = 0 THEN [numbers |-> nums, ret |-> FALSE]
       ELSE [numbers |-> SubSeq(nums, 1, i - 1), ret |-> TRUE]

\* PhoneManager.remove_number
remove_number(nums, phone) ==
    LET i == first_with(nums, phone)
    IN IF i = 0 THEN [numbers |-> nums, ret |-> FALSE]
       ELSE [numbers |-> SubSeq(nums, 1, i - 1) \o SubSeq(nums, i + 1, Len(nums)),
             ret |-> TRUE]

\* PhoneManager._load_numbers: the storage file as the pipeline finds it,
\* with a number that an earlier run verified for another service
StoredNumber ==
    [phone_number |-> PhoneOf(1), country_code |-> "151", activation_id |-> 1,
     first_used |-> 0, last_used |-> 0, services |-> <<"tk">>, times_used |-> 1]
StoredNumbers == <<StoredNumber>>

\* what handle_verification() did since it was called: the answers of the
\* screen check and of get_balance, the number of get_balance,
\* get_number_status and buy_number calls, whether some allow-listed country
\* outside the exclusion set reported stock, the number of purchases,
\* whether a purchase targeted an excluded country, whether the last price
\* query quoted an excluded country, the prices it quoted (while the
\* purchase loop that follows it runs), the country of the number the form
\* rejected when it was submitted (until the next purchase), how the SMS
\* verification of the last attempt ended and the activation held when the
\* number submission or the code entry of that attempt raised an error
\* (both until the next attempt starts), whether the latest purchase request
\* was answered NO_BALANCE,
\* whether the attempt loop ran out, what became of the activations
\* that the orchestrator no longer holds, and whether a get_sms_code call
\* that followed a resend began with less than 30 s of the SMS budget left,
\* and whether the current attempt stopped at a failed re-affirmation of the
\* phone step
NoQuote == [c \in CountrySet |-> 0]
NewTrace ==
    [screen |-> "none", balance |-> NoBalance, balance_calls |-> 0,
     stock_calls |-> 0, in_stock |-> FALSE, buy_calls |-> 0, bought |-> 0,
     buy_excluded |-> FALSE, listed_excluded |-> FALSE, quoted |-> NoQuote,
     rejected |-> "none", sms_end |-> "none", errored |-> 0, no_balance |-> FALSE,
     exhausted |-> FALSE,
     leaked |-> FALSE, recancelled |-> FALSE, repolled |-> FALSE,
     short_repoll |-> FALSE, off_screen |-> FALSE]

\* the remote records of the activations the orchestrator can still name
\* (the one in current_activation), and the trace with the fate of the
\* others: bought in this call and never sent status 6 or 8 (leaked),
\* sent status 6 more than once, polled after status 6
retire(a, ca, call, tr) ==
    LET gone == {i \in DOMAIN a : i # ca.activation_id}
    IN [acts |-> [i \in DOMAIN a \ gone |-> a[i]],
        trace |-> [tr EXCEPT
            !.leaked = @ \/ \E i \in gone :
                                a[i].call = call /\ a[i].six = 0 /\ a[i].eight = 0,
            !.recancelled = @ \/ \E i \in gone : a[i].six > 1,
            !.repolled = @ \/ \E i \in gone : a[i].poll_after_six]]

\* no library call is under study
NoOp == [name |-> "none"]

(***************************************************************************)
(* Initial state: PhoneVerification.__init__ as run by create_account      *)
(***************************************************************************)
\* GmailCreator never defines a phone_manager attribute, so the hasattr
\* test of create_account fails and phone_verify.phone_manager stays None
GmailCreator_phone_manager == FALSE

Init ==
    /\ pc = "idle"
    /\ calls = 0
    /\ result = "none"
    /\ ret = "none"
    /\ state = INITIAL
    /\ current_activation = None
    /\ used_countries = {}
    /\ phone_number = 0
    /\ phone_manager = GmailCreator_phone_manager
    /\ attempt_count = 0
    /\ success = FALSE
    /\ filtered_prices = <<>>
    /\ activation_id = 0
    /\ sms_code = FALSE
    /\ resent_attempt = 0
    /\ elapsed = 0
    /\ latency = 0
    /\ numbers = StoredNumbers
    /\ now = 0
    /\ acts = NoActs
    /\ trace = NewTrace
    /\ op = NoOp
    /\ file = StoredNumbers
    /\ numbers2 = <<>>

(***************************************************************************)
(* handle_verification                                                     *)
(***************************************************************************)
\* the pipeline calls handle_verification()
HandleVerification ==
    /\ pc = "idle"
    /\ calls < MaxCalls
    /\ calls' = calls + 1
    /\ pc' = "check_screen"
    /\ ret' = "none"
    /\ attempt_count' = 0
    /\ success' = FALSE
    /\ trace' = NewTrace
    /\ acts' = [i \in DOMAIN acts \cap {current_activation.activation_id} |-> acts[i]]
    /\ result' = "none"
    /\ UNCHANGED <<orch, filtered_prices, sms, store>>

\* _check_phone_screen at the top of handle_verification: the phone field is
\* present, the wait times out (return True), or the driver raises another
\* error, which the outer handler of handle_verification catches
CheckPhoneScreen ==
    /\ pc = "check_screen"
    /\ \E screen \in {"present", "timeout", "error"} :
        /\ trace' = [trace EXCEPT !.screen = screen]
        /\ CASE screen = "present" ->
                  /\ pc' = "validate"
                  /\ UNCHANGED <<ret, current_activation, used_countries, acts>>
             [] screen = "timeout" ->
                  /\ pc' = "finally"
                  /\ ret' = "true"
                  /\ UNCHANGED <<current_activation, used_countries, acts>>
             [] screen = "error" ->
                  LET r == IF state # COMPLETED
                           THEN cancel_current_number(current_activation, used_countries, acts)
                           ELSE [ca |-> current_activation, used |-> used_countries, acts |-> acts]
                  IN /\ pc' = "finally"
                     /\ ret' = "false"
                     /\ current_activation' = r.ca
                     /\ used_countries' = r.used
                     /\ acts' = r.acts
    /\ UNCHANGED <<calls, result, state, phone_number, phone_manager, locals, sms, store>>

\* _validate_initial_conditions: get_balance, then _check_number_availability
\* (one get_number_status per allow-listed country not yet excluded)
ValidateInitialConditions ==
    /\ pc = "validate"
    /\ \E balance \in BalanceResults, stock \in [CountrySet -> {0, 5}] :
        IF balance_insufficient(balance)
        THEN /\ trace' = [trace EXCEPT !.balance = balance, !.balance_calls = @ + 1]
             /\ pc' = "finally"
             /\ ret' = "false"
        ELSE LET available == check_number_availability(stock, used_countries)
             IN /\ trace' = [trace EXCEPT !.balance = balance,
                                          !.balance_calls = @ + 1,
                                          !.stock_calls = @ + Cardinality(CountrySet \ used_countries),
                                          !.in_stock = \E c \in CountrySet \ used_countries :
                                                           stock[c] > 0]
                /\ IF available = {}
                   THEN pc' = "finally" /\ ret' = "false"
                   ELSE pc' = "loop" /\ ret' = ret
    /\ UNCHANGED <<calls, result, orch, locals, sms, store, acts>>

\* the finally block: _ensure_final_cleanup, then the value is returned
EnsureFinalCleanup ==
    /\ pc = "finally"
    /\ LET r == ensure_final_cleanup(current_activation, state, used_countries, acts)
       IN /\ current_activation' = r.ca
          /\ used_countries' = r.used
          /\ acts' = r.acts
    /\ result' = ret
    /\ ret' = "none"
    /\ attempt_count' = 0
    /\ success' = FALSE
    /\ pc' = "idle"
    /\ UNCHANGED <<calls, state, phone_number, phone_manager, filtered_prices, sms, store, trace>>

\* one more iteration of the attempt loop: count it and, from the second
\* attempt on, re-affirm the phone step (_ensure_phone_verification_screen
\* catches every error and answers True or False)
StartAttempt ==
    /\ pc = "loop"
    /\ loop_continues(attempt_count)
    /\ attempt_count' = count_attempt(attempt_count)
    /\ LET h == retire(acts, current_activation, calls, trace)
       IN /\ acts' = h.acts
          /\ \E on_screen \in IF reaffirm_phone_screen(attempt_count')
                               THEN BOOLEAN ELSE {TRUE} :
               /\ pc' = IF on_screen THEN "cycle" ELSE "loop"
               /\ trace' = [h.trace EXCEPT !.sms_end = "none", !.errored = 0,
                                           !.off_screen = ~on_screen]
    /\ UNCHANGED <<calls, result, ret, orch, success, filtered_prices, sms, store>>

\* the loop ends without success: return False
AttemptsExhausted ==
    /\ pc = "loop"
    /\ ~loop_continues(attempt_count)
    /\ pc' = "finally"
    /\ ret' = "false"
    /\ LET h == retire(acts, current_activation, calls, trace)
       IN acts' = h.acts /\ trace' = [h.trace EXCEPT !.exhausted = TRUE]
    /\ UNCHANGED <<calls, result, orch, locals, sms, store>>

\* _try_verification_cycle up to the purchase loop of _get_new_number: the
\* page reload when a country was already used (a driver error there is
\* caught by the cycle, which runs _cancel_number), then the price query
TryVerificationCycle ==
    /\ pc = "cycle"
    /\ \E reload_ok \in BOOLEAN, prices \in [CountrySet -> {0} \cup PriceValues] :
        IF used_countries # {} /\ ~reload_ok
        THEN LET r == cancel_number(current_activation, state, used_countries, acts)
             IN /\ current_activation' = r.ca
                /\ used_countries' = r.used
                /\ acts' = r.acts
                /\ filtered_prices' = filtered_prices
                /\ trace' = trace
                /\ pc' = "loop"
        ELSE /\ reload_ok
             /\ LET todo == countries_to_try(used_countries, prices)
                IN /\ filtered_prices' = todo
                   /\ trace' = [trace EXCEPT !.listed_excluded =
                                                 \E c \in used_countries : prices[c] > 0,
                                             !.quoted = IF todo = <<>> THEN NoQuote
                                                        ELSE prices]
                   /\ IF todo = <<>>
                      THEN current_activation' = None /\ pc' = "loop"
                      ELSE current_activation' = current_activation /\ pc' = "buy"
             /\ UNCHANGED <<used_countries, acts>>
    /\ UNCHANGED <<calls, result, ret, state, phone_number, phone_manager,
                   attempt_count, success, sms, store>>

\* one iteration of the purchase loop of _get_new_number: buy_number for the
\* cheapest country left; the answer is a number or one of the failures,
\* all of which the client reports as (None, None)
BuyNumber ==
    /\ pc = "buy"
    /\ filtered_prices # <<>>
    /\ LET country == filtered_prices[1].country_code
       IN \E answer \in {"ACCESS_NUMBER", "NO_NUMBERS", "NO_BALANCE", "ERROR"} :
          LET t == [trace EXCEPT !.buy_calls = @ + 1,
                                 !.buy_excluded = @ \/ country \in used_countries,
                                 !.no_balance = (answer = "NO_BALANCE")]
          IN
          IF answer = "ACCESS_NUMBER"
            THEN LET id == NewId(calls, trace.bought + 1)
                 IN /\ acts' = (id :> NewAct(country, calls)) @@ acts
                    /\ phone_number' = PhoneOf(id)
                    /\ current_activation' = ActivationInfo(id, PhoneOf(id), country)
                    /\ trace' = [t EXCEPT !.bought = @ + 1, !.rejected = "none"]
                    /\ filtered_prices' = <<>>
                    /\ used_countries' = used_countries
                    /\ pc' = "submit"
            ELSE /\ used_countries' = used_countries \cup {country}
                 /\ filtered_prices' = Tail(filtered_prices)
                 /\ trace' = IF Tail(filtered_prices) = <<>>
                              THEN [t EXCEPT !.quoted = NoQuote] ELSE t
                 /\ IF Tail(filtered_prices) = <<>>
                    THEN current_activation' = None /\ pc' = "loop"
                    ELSE current_activation' = current_activation /\ pc' = "buy"
                 /\ UNCHANGED <<acts, phone_number>>
    /\ UNCHANGED <<calls, result, ret, state, phone_manager, attempt_count, success, sms, store>>

\* _submit_phone_number for the number just purchased
SubmitPhoneNumber ==
    /\ pc = "submit"
    /\ \E outcome \in SubmitOutcomes :
        LET r == submit_phone_number(outcome, current_activation, state, used_countries, acts)
        IN /\ current_activation' = r.ca
           /\ used_countries' = r.used
           /\ acts' = r.acts
           /\ pc' = IF r.ok THEN "sms" ELSE "loop"
           /\ trace' = [trace EXCEPT !.listed_excluded = FALSE, !.quoted = NoQuote,
                                     !.rejected = IF outcome = "rejected"
                                                  THEN current_activation.country_code
                                                  ELSE "none",
                                     !.errored = IF outcome = "exception"
                                                 THEN current_activation.activation_id
                                                 ELSE 0]
    /\ UNCHANGED <<calls, result, ret, state, phone_number, phone_manager,
                   locals, sms, store>>

\* _handle_sms_verification up to the end of the first get_sms_code call
HandleSmsVerification ==
    /\ pc = "sms"
    /\ IF current_activation = None
       THEN /\ pc' = "loop"
            /\ UNCHANGED <<state, sms, acts>>
       ELSE \E answers \in AnswerSeqs(initial_max_attempts), lat \in Delays :
            LET id == current_activation.activation_id
                r  == get_sms_code(answers, initial_max_attempts, lat)
            IN /\ state' = WAITING_SMS
               /\ latency' = lat
               /\ activation_id' = id
               /\ acts' = sms_code_effect(acts, id, r)
               /\ sms_code' = r.code
               /\ elapsed' = r.duration
               /\ resent_attempt' = 0
               /\ pc' = "resend"
    /\ UNCHANGED <<calls, result, ret, current_activation, used_countries, phone_number,
                   phone_manager, locals, store, trace>>

\* the test of the resend loop without its limit on resend attempts
resend_continues_unlimited(code, resent, t) == ~code /\ t < sms_global_timeout

\* the test of the resend loop
resend_continues(code, resent, t) ==
    ~code /\ resent < max_resent_attempts /\ t < sms_global_timeout

\* one iteration of the resend loop: wait for the "Get a new code" button,
\* try to click it, look at the screen that follows, resubmit the number if
\* the form went back to the phone step, and run the next get_sms_code
ResendCycle ==
    /\ pc = "resend"
    /\ resend_continues(sms_code, resent_attempt, elapsed)
    /\ resent_attempt' = resent_attempt + 1
    /\ LET remaining == sms_global_timeout - elapsed
       IN IF remaining < min_resend_time
          THEN /\ pc' = "code"
               /\ UNCHANGED <<current_activation, used_countries, acts, elapsed, sms_code, trace>>
          ELSE LET t1 == elapsed + wait_time(remaining)
                   t2 == t1 + click_sleep
                   max == max_sms_attempts(sms_global_timeout - t2)
               IN IF t1 >= sms_global_timeout
                  THEN /\ pc' = "code"
                       /\ elapsed' = t1
                       /\ UNCHANGED <<current_activation, used_countries, acts, sms_code, trace>>
                  ELSE \/ \* the button was not found or not clicked: reload the
                          \* page on the first resend, then next iteration
                          /\ pc' = "resend"
                          /\ elapsed' = IF resent_attempt' = 1 THEN t1 + reload_sleep ELSE t1
                          /\ UNCHANGED <<current_activation, used_countries, acts, sms_code, trace>>
                       \/ \* the button was clicked
                          IF t2 >= sms_global_timeout
                          THEN /\ pc' = "code"
                               /\ elapsed' = t2
                               /\ UNCHANGED <<current_activation, used_countries, acts,
                                              sms_code, trace>>
                          ELSE \E screen \in {"phone_input", "other"},
                                  outcome \in SubmitOutcomes :
                               LET s == IF screen = "phone_input"
                                        THEN submit_phone_number(outcome, current_activation,
                                                                 state, used_countries, acts)
                                        ELSE [ok |-> TRUE, ca |-> current_activation,
                                              used |-> used_countries, acts |-> acts]
                               IN /\ screen = "other" => outcome = "accepted"
                                  /\ current_activation' = s.ca
                                  /\ used_countries' = s.used
                                  /\ IF ~s.ok
                                     THEN /\ pc' = "resend"
                                          /\ acts' = s.acts
                                          /\ elapsed' = t2
                                          /\ sms_code' = sms_code
                                          /\ trace' = trace
                                     ELSE IF sms_global_timeout - t2 < min_resend_time
                                     THEN /\ pc' = "code"
                                          /\ acts' = s.acts
                                          /\ elapsed' = t2
                                          /\ sms_code' = sms_code
                                          /\ trace' = trace
                                     ELSE \E answers \in AnswerSeqs(max) :
                                          LET r == get_sms_code(answers, max, latency)
                                          IN /\ acts' = sms_code_effect(s.acts, activation_id, r)
                                             /\ sms_code' = r.code
                                             /\ elapsed' = t2 + r.duration
                                             /\ pc' = "resend"
                                             /\ trace' = [trace EXCEPT !.short_repoll =
                                                            @ \/ sms_global_timeout - t2 < 30]
    /\ UNCHANGED <<calls, result, ret, state, phone_number, phone_manager, locals,
                   activation_id, latency, store>>

\* a test of the time left that lets every code through
too_late_to_submit_never(remaining) == FALSE

\* the test of the time left before the code is typed: fewer than 10 s
too_late_to_submit(remaining) == remaining < min_submit_time

\* the check for an incorrect-code message that never finds one
code_accepted_unchecked(verdict) == verdict # "error"

\* what the form shows after the code was typed and Next clicked: no
\* incorrect-code message and no driver error means the code was accepted
code_accepted(verdict) == verdict = "accepted"

\* the rest of _handle_sms_verification: give up without a code or with
\* too little time left, else type the code and read the form's verdict;
\* on acceptance send status 8, become COMPLETED, store the number and
\* return True through _try_verification_cycle and the attempt loop
EnterSmsCode ==
    /\ \/ pc = "code"
       \/ pc = "resend" /\ ~resend_continues(sms_code, resent_attempt, elapsed)
    /\ \E verdict \in {"accepted", "wrong_code", "error"} :
        /\ trace' = [trace EXCEPT !.sms_end =
                         IF ~sms_code THEN "no_code"
                         ELSE IF too_late_to_submit(sms_global_timeout - elapsed) THEN "late"
                         ELSE verdict,
                                   !.errored =
                         IF sms_code /\ ~too_late_to_submit(sms_global_timeout - elapsed)
                            /\ verdict = "error"
                         THEN activation_id ELSE 0]
        /\ IF \/ ~sms_code
              \/ too_late_to_submit(sms_global_timeout - elapsed)
              \/ ~code_accepted(verdict)
           THEN LET r == cancel_current_number(current_activation, used_countries, acts)
                IN /\ current_activation' = r.ca
                   /\ used_countries' = r.used
                   /\ acts' = r.acts
                   /\ pc' = "loop"
                   /\ UNCHANGED <<state, numbers, file, success, ret>>
           ELSE /\ acts' = [set_status(acts, activation_id, 8) EXCEPT ![activation_id].won = TRUE]
                /\ state' = COMPLETED
                /\ numbers' = IF phone_manager /\ current_activation # None
                              THEN add_number(numbers, phone_number,
                                              current_activation.country_code,
                                              current_activation.activation_id, "gmail", now)
                              ELSE numbers
                /\ file' = IF /\ phone_manager /\ current_activation # None
                              /\ add_number_result(phone_number,
                                                   current_activation.country_code,
                                                   current_activation.activation_id)
                           THEN save_numbers(file, numbers')
                           ELSE file
                /\ success' = TRUE
                /\ ret' = "true"
                /\ pc' = "finally"
                /\ UNCHANGED <<current_activation, used_countries>>
    /\ activation_id' = 0 /\ sms_code' = FALSE /\ resent_attempt' = 0
    /\ elapsed' = 0 /\ latency' = 0
    /\ UNCHANGED <<calls, result, phone_number, phone_manager, attempt_count,
                   filtered_prices, now, op, numbers2>>

Next ==
    \/ HandleVerification
    \/ CheckPhoneScreen
    \/ ValidateInitialConditions
    \/ StartAttempt
    \/ AttemptsExhausted
    \/ TryVerificationCycle
    \/ BuyNumber
    \/ SubmitPhoneNumber
    \/ HandleSmsVerification
    \/ ResendCycle
    \/ EnterSmsCode
    \/ EnsureFinalCleanup

Spec == Init /\ [][Next]_vars

(***************************************************************************)
(* handle_verification under fair scheduling, as create_account runs it:   *)
(* one call on a PhoneVerification built for the account.  The method runs *)
(* on one thread and every remote request and driver wait it makes carries *)
(* a timeout, so a step of a call that has begun is eventually taken.  The *)
(* call itself is the pipeline's choice and is not forced.                 *)
(***************************************************************************)
\* create_account builds the PhoneVerification and calls it once
FirstCall == calls = 0 /\ HandleVerification

Respond ==
    \/ CheckPhoneScreen
    \/ ValidateInitialConditions
    \/ StartAttempt
    \/ AttemptsExhausted
    \/ TryVerificationCycle
    \/ BuyNumber
    \/ SubmitPhoneNumber
    \/ HandleSmsVerification
    \/ ResendCycle
    \/ EnterSmsCode
    \/ EnsureFinalCleanup

FairNext == FirstCall \/ Respond

FairSpec == Init /\ [][FairNext]_vars /\ WF_vars(Respond)

(***************************************************************************)
(* SMSAPI.get_sms_code on its own: one call for one activation, against    *)
(* every sequence of replies the remote service can give                   *)
(***************************************************************************)
\* what one getStatus request can come back with: the code, the cancel
\* signal, the wait answer, or an error (a status other than 200 or an
\* exception of the request)
PollAnswers == {"STATUS_OK", "STATUS_CANCEL", "STATUS_WAIT", "ERROR"}

\* the activation a lone get_sms_code call is made for
PolledId == 1

\* a get_sms_code call is about to be made for an activation that was just
\* purchased; the orchestrator is not involved
PollInit ==
    /\ pc = "idle"
    /\ calls = 0
    /\ result = "none"
    /\ ret = "none"
    /\ state = INITIAL
    /\ current_activation = None
    /\ used_countries = {}
    /\ phone_number = 0
    /\ phone_manager = GmailCreator_phone_manager
    /\ attempt_count = 0
    /\ success = FALSE
    /\ filtered_prices = <<>>
    /\ activation_id = 0
    /\ sms_code = FALSE
    /\ resent_attempt = 0
    /\ elapsed = 0
    /\ latency = 0
    /\ numbers = <<>>
    /\ now = 0
    /\ acts = (PolledId :> NewAct("151", 0))
    /\ trace = NewTrace
    /\ file = <<>>
    /\ numbers2 = <<>>
    /\ \E answers \in [1..MaxPolls -> PollAnswers], max \in 0..MaxPolls, lat \in Delays :
          op = [name |-> "get_sms_code", done |-> FALSE, answers |-> answers,
                max_attempts |-> max, lat |-> lat]

\* the call runs and returns
GetSmsCode ==
    /\ op.name = "get_sms_code" /\ ~op.done
    /\ LET r == get_sms_code(op.answers, op.max_attempts, op.lat)
       IN /\ op' = [op EXCEPT !.done = TRUE] @@ [code |-> r.code, polls |-> r.polls]
          /\ acts' = sms_code_effect(acts, PolledId, r)
    /\ UNCHANGED <<pc, calls, result, ret, orch, locals, sms, numbers, now, trace,
                   file, numbers2>>

PollNext == GetSmsCode

PollSpec == PollInit /\ [][PollNext]_vars

(***************************************************************************)
(* PhoneManager on its own: a store created on an empty storage file and   *)
(* the calls its users make, with a clock that only moves forward          *)
(***************************************************************************)
\* the phone numbers the callers of the store hand to it
Phones == {PhoneOf(1), PhoneOf(2)}
\* service tags: the default "go" of the store and of the purchases, and the
\* "gmail" the orchestrator records a verified number with
Services == {"go", "gmail"}
TickSeconds == reuse_window
\* the activation id of the purchase that puts a phone number into a
\* caller's hands at time t: every purchase has an id of its own
IdAt(phone, t) == NewId(t \div TickSeconds, phone - PhoneOf(0))

StoreInit ==
    /\ pc = "idle"
    /\ calls = 0
    /\ result = "none"
    /\ ret = "none"
    /\ state = INITIAL
    /\ current_activation = None
    /\ used_countries = {}
    /\ phone_number = 0
    /\ phone_manager = GmailCreator_phone_manager
    /\ attempt_count = 0
    /\ success = FALSE
    /\ filtered_prices = <<>>
    /\ activation_id = 0
    /\ sms_code = FALSE
    /\ resent_attempt = 0
    /\ elapsed = 0
    /\ latency = 0
    /\ numbers = <<>>
    /\ now = 0
    /\ acts = NoActs
    /\ trace = NewTrace
    /\ op = NoOp
    /\ file = <<>>
    /\ numbers2 = <<>>

\* the use counts stay within the bound of the model
WithinUses(nums) == \A i \in 1..Len(nums) : nums[i].times_used <= MaxUses

\* the variables the store operations never touch
orchestrator == <<pc, calls, result, ret, orch, locals, sms, acts, trace>>

\* time passes
Tick ==
    /\ now < MaxTicks * TickSeconds
    /\ now' = now + TickSeconds
    /\ op' = [name |-> "tick"]
    /\ UNCHANGED <<numbers, file, numbers2, orchestrator>>

\* some user of the store calls add_number
AddNumber ==
    /\ \E phone \in Phones, service \in Services :
          /\ numbers' = add_number(numbers, phone, "151", IdAt(phone, now), service, now)
          /\ op' = [name |-> "add_number", caller |-> "any", phone |-> phone,
                    country |-> "151", id |-> IdAt(phone, now), service |-> service,
                    ret |-> add_number_result(phone, "151", IdAt(phone, now))]
    /\ file' = save_numbers(file, numbers')
    /\ WithinUses(numbers')
    /\ UNCHANGED <<now, numbers2, orchestrator>>

\* some user calls add_number with one of the identifying arguments empty
AddIncompleteNumber ==
    /\ \E phone \in Phones, missing \in {"phone_number", "country_code", "activation_id"} :
          LET p == IF missing = "phone_number" THEN 0 ELSE phone
              c == IF missing = "country_code" THEN "none" ELSE "151"
              i == IF missing = "activation_id" THEN 0 ELSE IdAt(phone, now)
          IN /\ numbers' = add_number(numbers, p, c, i, "go", now)
             /\ op' = [name |-> "add_number", caller |-> "any", phone |-> p,
                       country |-> c, id |-> i, service |-> "go",
                       ret |-> add_number_result(p, c, i)]
             /\ file' = IF add_number_result(p, c, i)
                        THEN save_numbers(file, numbers') ELSE file
    /\ UNCHANGED <<now, numbers2, orchestrator>>

\* the orchestrator records the number it bought for service "go" and
\* verified, as _handle_sms_verification does when a phone_manager is set
RecordVerifiedNumber ==
    /\ \E phone \in Phones :
          /\ numbers' = add_number(numbers, phone, "151", IdAt(phone, now), "gmail", now)
          /\ op' = [name |-> "add_number", caller |-> "orchestrator",
                    phone |-> phone, country |-> "151", id |-> IdAt(phone, now),
                    service |-> "gmail",
                    ret |-> add_number_result(phone, "151", IdAt(phone, now))]
    /\ file' = save_numbers(file, numbers')
    /\ WithinUses(numbers')
    /\ UNCHANGED <<now, numbers2, orchestrator>>

\* get_reusable_number saves after the purge and again after a checkout
GetReusableNumber ==
    /\ \E service \in Services :
          LET r == get_reusable_number(numbers, service, now)
              purged == save_numbers(file, cleanup_expired_numbers(numbers, now))
          IN /\ numbers' = r.numbers
             /\ file' = IF r.ret # NoNumber THEN save_numbers(purged, r.numbers)
                        ELSE purged
             /\ op' = [name |-> "get_reusable_number", service |-> service,
                       had |-> Len(numbers), ret |-> r.ret]
    /\ WithinUses(numbers')
    /\ UNCHANGED <<now, numbers2, orchestrator>>

MarkNumberUsed ==
    /\ \E phone \in Phones, service \in Services :
          LET r == mark_number_used(numbers, phone, service, now)
          IN /\ numbers' = r.numbers
             /\ file' = IF r.ret THEN save_numbers(file, r.numbers) ELSE file
             /\ op' = [name |-> "mark_number_used", phone |-> phone,
                       service |-> service, ret |-> r.ret]
    /\ WithinUses(numbers')
    /\ UNCHANGED <<now, numbers2, orchestrator>>

RemoveNumber ==
    /\ \E phone \in Phones :
          LET r == remove_number(numbers, phone)
          IN /\ numbers' = r.numbers
             /\ file' = IF r.ret THEN save_numbers(file, r.numbers) ELSE file
             /\ op' = [name |-> "remove_number", phone |-> phone, ret |-> r.ret]
    /\ UNCHANGED <<now, numbers2, orchestrator>>

StoreNext ==
    \/ Tick
    \/ AddNumber
    \/ AddIncompleteNumber
    \/ RecordVerifiedNumber
    \/ GetReusableNumber
    \/ MarkNumberUsed
    \/ RemoveNumber

StoreSpec == StoreInit /\ [][StoreNext]_vars

(***************************************************************************)
(* Two PhoneManager instances on one storage file.  Each call runs from    *)
(* its first line to its return before the next call starts.               *)
(***************************************************************************)
Instances == {1, 2}

\* self.numbers of an instance
numbers_of(k) == IF k = 1 THEN numbers ELSE numbers2

\* both instances were created while the file did not exist
SharedInit ==
    /\ pc = "idle"
    /\ calls = 0
    /\ result = "none"
    /\ ret = "none"
    /\ state = INITIAL
    /\ current_activation = None
    /\ used_countries = {}
    /\ phone_number = 0
    /\ phone_manager = GmailCreator_phone_manager
    /\ attempt_count = 0
    /\ success = FALSE
    /\ filtered_prices = <<>>
    /\ activation_id = 0
    /\ sms_code = FALSE
    /\ resent_attempt = 0
    /\ elapsed = 0
    /\ latency = 0
    /\ now = 0
    /\ acts = NoActs
    /\ trace = NewTrace
    /\ op = NoOp
    /\ file = <<>>
    /\ numbers = load_numbers(file)
    /\ numbers2 = load_numbers(file)

\* an instance is created anew: PhoneManager.__init__ loads the file
SharedLoad ==
    /\ \E k \in Instances :
          /\ numbers' = IF k = 1 THEN load_numbers(file) ELSE numbers
          /\ numbers2' = IF k = 2 THEN load_numbers(file) ELSE numbers2
          /\ op' = [name |-> "load", instance |-> k, phone |-> 0, wrote |-> FALSE]
    /\ UNCHANGED <<now, file, orchestrator>>

\* add_number on one of the instances
SharedAdd ==
    /\ \E k \in Instances, phone \in Phones :
          LET new == add_number(numbers_of(k), phone, "151", IdAt(phone, now), "go", now)
          IN /\ WithinUses(new)
             /\ numbers' = IF k = 1 THEN new ELSE numbers
             /\ numbers2' = IF k = 2 THEN new ELSE numbers2
             /\ file' = save_numbers(file, new)
             /\ op' = [name |-> "add_number", instance |-> k, phone |-> phone,
                       wrote |-> TRUE]
    /\ UNCHANGED <<now, orchestrator>>

\* remove_number on one of the instances
SharedRemove ==
    /\ \E k \in Instances, phone \in Phones :
          LET r == remove_number(numbers_of(k), phone)
          IN /\ numbers' = IF k = 1 THEN r.numbers ELSE numbers
             /\ numbers2' = IF k = 2 THEN r.numbers ELSE numbers2
             /\ file' = IF r.ret THEN save_numbers(file, r.numbers) ELSE file
             /\ op' = [name |-> "remove_number", instance |-> k, phone |-> phone,
                       wrote |-> r.ret]
    /\ UNCHANGED <<now, orchestrator>>

SharedNext ==
    \/ SharedLoad
    \/ SharedAdd
    \/ SharedRemove

SharedSpec == SharedInit /\ [][SharedNext]_vars

(***************************************************************************)
(* SMSAPI.get_cheapest_country on its own, against every catalogue the     *)
(* price query can come back with                                          *)
(***************************************************************************)
\* what get_prices holds for one allow-listed country and the service: no
\* entry, or a cost and a count
NotQuoted == [quoted |-> FALSE, cost |-> 0, count |-> 0]
Quotes ==
    {NotQuoted} \cup
    {[quoted |-> TRUE, cost |-> c, count |-> n] : c \in {0} \cup PriceValues, n \in {0, 1, 5}}

\* what get_prices returns: None (known = FALSE) or the catalogue
Catalogues ==
    {[known |-> FALSE, of |-> [c \in CountrySet |-> NotQuoted]]}
    \cup {[known |-> TRUE, of |-> q] : q \in [CountrySet -> Quotes]}

\* the pair (None, None)
NoCountry == [country_code |-> "none", price |-> 0]

\* the loop of get_cheapest_country taking a later country of equal price
RECURSIVE cheapest_scan_last_equal(_, _, _)
cheapest_scan_last_equal(prices, i, best) ==
    IF i > Len(selected_countries) THEN best
    ELSE LET q == prices[selected_countries[i]]
         IN IF /\ q.quoted
               /\ (best = NoCountry \/ q.cost <= best.price)
               /\ q.count > 0
            THEN cheapest_scan_last_equal(prices, i + 1,
                     [country_code |-> selected_countries[i], price |-> q.cost])
            ELSE cheapest_scan_last_equal(prices, i + 1, best)

\* the loop of get_cheapest_country over the allow-list, from position i on:
\* best is (cheapest_country, lowest_price), with lowest_price = inf as long
\* as cheapest_country is None
RECURSIVE cheapest_scan(_, _, _)
cheapest_scan(prices, i, best) ==
    IF i > Len(selected_countries) THEN best
    ELSE LET q == prices[selected_countries[i]]
         IN IF /\ q.quoted
               /\ (best = NoCountry \/ q.cost < best.price)
               /\ q.count > 0
            THEN cheapest_scan(prices, i + 1,
                     [country_code |-> selected_countries[i], price |-> q.cost])
            ELSE cheapest_scan(prices, i + 1, best)

\* SMSAPI.get_cheapest_country, on what get_prices returned
get_cheapest_country(catalogue) ==
    IF ~catalogue.known \/ \A c \in CountrySet : ~catalogue.of[c].quoted
    THEN NoCountry
    ELSE cheapest_scan(catalogue.of, 1, NoCountry)

CheapInit ==
    /\ pc = "idle"
    /\ calls = 0
    /\ result = "none"
    /\ ret = "none"
    /\ state = INITIAL
    /\ current_activation = None
    /\ used_countries = {}
    /\ phone_number = 0
    /\ phone_manager = GmailCreator_phone_manager
    /\ attempt_count = 0
    /\ success = FALSE
    /\ filtered_prices = <<>>
    /\ activation_id = 0
    /\ sms_code = FALSE
    /\ resent_attempt = 0
    /\ elapsed = 0
    /\ latency = 0
    /\ numbers = <<>>
    /\ now = 0
    /\ acts = NoActs
    /\ trace = NewTrace
    /\ file = <<>>
    /\ numbers2 = <<>>
    /\ \E catalogue \in Catalogues :
          op = [name |-> "get_cheapest_country", done |-> FALSE, prices |-> catalogue,
                ret |-> NoCountry]

\* the call runs and returns
GetCheapestCountry ==
    /\ op.name = "get_cheapest_country" /\ ~op.done
    /\ op' = [op EXCEPT !.done = TRUE, !.ret = get_cheapest_country(op.prices)]
    /\ UNCHANGED <<numbers, now, file, numbers2, orchestrator>>

CheapNext == GetCheapestCountry

CheapSpec == CheapInit /\ [][CheapNext]_vars

(***************************************************************************)
(* Properties                                                              *)
(***************************************************************************)
\* the activations of the remote records that were never sent status 6 or 8
Live == {i \in DOMAIN acts : acts[i].six = 0 /\ acts[i].eight = 0}

\* C1: whenever handle_verification() returns failure, every activation
\* purchased during that call has been sent status 6
C1_CancelledOnFailure ==
    (pc = "idle" /\ result = "false") =>
        /\ ~trace.leaked
        /\ \A i \in DOMAIN acts : acts[i].call = calls => acts[i].six > 0

\* C2: at most one purchased activation is neither cancelled nor confirmed,
\* and it is the one held in current_activation
C2_AtMostOneLive ==
    /\ ~trace.leaked
    /\ Cardinality(Live) <= 1
    /\ Live \subseteq {current_activation.activation_id}

\* C3: the activation whose code the form accepted was sent status 8 and is
\* never sent status 6 afterwards, and a call that returns success after a
\* purchase has such an activation
C3_WinnerNeverCancelled ==
    /\ \A i \in DOMAIN acts :
          acts[i].won => acts[i].eight > 0 /\ ~acts[i].six_after_won
    /\ (pc = "idle" /\ result = "true" /\ trace.bought > 0) =>
          \E i \in DOMAIN acts : acts[i].call = calls /\ acts[i].won /\ acts[i].eight > 0

\* C3 witness: a call returned success, the finally block ran while the
\* winning activation was held
C3_Witness ==
    /\ pc = "idle" /\ result = "true"
    /\ current_activation # None
    /\ current_activation.activation_id \in DOMAIN acts
    /\ acts[current_activation.activation_id].won
    /\ acts[current_activation.activation_id].call = calls

\* C4: after a call returned success for a purchased number, the reuse store
\* has an entry for the winning phone number with its country code and
\* activation id and at least one service tag
C4_WinnerStored ==
    (pc = "idle" /\ result = "true" /\ trace.bought > 0) =>
        \E i \in DOMAIN acts :
            /\ acts[i].won /\ acts[i].call = calls
            /\ \E k \in 1..Len(numbers) :
                  /\ numbers[k].phone_number = PhoneOf(i)
                  /\ numbers[k].country_code = acts[i].country
                  /\ numbers[k].activation_id = i
                  /\ Len(numbers[k].services) > 0

\* C5: when the phone step is present and get_balance answers None or a
\* balance <= 0, the call returns False and makes no buy_number call
C5_NoPurchaseWithoutBalance ==
    (/\ trace.screen = "present"
     /\ trace.balance_calls > 0
     /\ (~trace.balance.known \/ trace.balance.amount <= 0)) =>
        /\ trace.buy_calls = 0
        /\ pc \in {"finally", "idle"}
        /\ pc = "finally" => ret = "false"
        /\ pc = "idle" => result = "false"

\* C5 witness: a call that found the phone step and a balance of 0 returned
C5_Witness ==
    /\ pc = "idle" /\ result = "false"
    /\ trace.screen = "present" /\ trace.balance_calls = 1
    /\ trace.balance.known /\ trace.balance.amount = 0

\* C6: when the balance is positive and no allow-listed country outside the
\* exclusion set reports stock > 0, the call returns False with no
\* buy_number call and without entering the attempt loop
C6_NoPurchaseWithoutStock ==
    (/\ trace.balance_calls > 0
     /\ trace.balance.known /\ trace.balance.amount > 0
     /\ ~trace.in_stock) =>
        /\ trace.buy_calls = 0
        /\ attempt_count = 0
        /\ pc \in {"finally", "idle"}
        /\ pc = "finally" => ret = "false"
        /\ pc = "idle" => result = "false"

\* C6 witness: a call with a positive balance and no stock returned, after
\* it queried the stock of at least one country
C6_Witness ==
    /\ pc = "idle" /\ result = "false"
    /\ trace.balance.known /\ trace.balance.amount > 0
    /\ trace.stock_calls > 0 /\ ~trace.in_stock

\* C7: one call runs at most 3 attempts and at most 3 purchases succeed in
\* it, no more than one per attempt counted
C7_AttemptCeiling ==
    /\ attempt_count <= 3
    /\ trace.bought <= 3
    /\ pc # "idle" => trace.bought <= attempt_count

\* C7 witness: the third attempt of a call made the third purchase
C7_Witness == attempt_count = 3 /\ trace.bought = 3

\* C8: when all attempts are exhausted without success, the call returns
\* failure with state FAILED
C8_FailedAfterExhaustion ==
    (pc = "idle" /\ trace.exhausted) => (result = "false" /\ state = FAILED)

\* C9: when the phone step is absent, the call returns success without a
\* balance, stock or purchase call, and the state is COMPLETED
C9_TrivialSuccess ==
    (pc = "idle" /\ trace.screen = "timeout") =>
        /\ result = "true"
        /\ trace.balance_calls = 0 /\ trace.stock_calls = 0 /\ trace.buy_calls = 0
        /\ state = COMPLETED

\* C10: no buy_number call targets a country that is in the exclusion set
\* when the call is made
C10_NoPurchaseInExcludedCountry == ~trace.buy_excluded

\* C10 witness: a number was bought in a cycle whose price query quoted an
\* excluded country
C10_Witness ==
    /\ pc = "submit"
    /\ trace.listed_excluded
    /\ used_countries # {}
    /\ current_activation.country_code \notin used_countries

\* C11: the country exclusion set only grows: after every step of the
\* orchestrator it is a superset of what it was before the step
C11_ExclusionOnlyGrows == [][used_countries \subseteq used_countries']_vars

\* C11 witness: within one call the set grew twice, once by a purchase that
\* failed or was cancelled and once more afterwards
C11_Witness ==
    /\ pc \notin {"idle", "check_screen"}
    /\ calls = 1
    /\ Cardinality(used_countries) = 2
    /\ trace.bought > 0

\* C12: exclusion lasts for one call only: when a handle_verification()
\* call starts, every allow-listed country is eligible for purchase, also
\* one that an earlier call on the same instance excluded
C12_ExclusionEndsWithCall ==
    pc = "check_screen" =>
        \A i \in 1..Len(selected_countries) :
            \E j \in 1..Len(available_countries(used_countries)) :
                available_countries(used_countries)[j] = selected_countries[i]

\* the position of a country in the allow-list
allow_index(c) == CHOOSE i \in 1..Len(selected_countries) : selected_countries[i] = c

\* C13: within one number acquisition the countries still to be tried are
\* exactly the quoted allow-listed countries outside the exclusion set, in
\* ascending price order with equal prices in allow-list order; each
\* buy_number call goes to the first of them, a successful purchase ends
\* the acquisition with a number of that country, and a failed one adds
\* that country to the exclusion set before the next country is tried
C13_PriceOrder ==
    [][pc = "buy" =>
        LET L == filtered_prices
        IN /\ \A i \in 1..Len(L) :
                 /\ L[i].country_code \in CountrySet \ used_countries
                 /\ L[i].price > 0
                 /\ L[i].price = trace.quoted[L[i].country_code]
           /\ \A i, j \in 1..Len(L) :
                 i < j => \/ L[i].price < L[j].price
                          \/ /\ L[i].price = L[j].price
                             /\ allow_index(L[i].country_code) < allow_index(L[j].country_code)
           /\ \A c \in CountrySet \ used_countries :
                 trace.quoted[c] > 0 => \E i \in 1..Len(L) : L[i].country_code = c
           /\ trace'.buy_calls = trace.buy_calls + 1 =>
                 IF trace'.bought = trace.bought + 1
                 THEN /\ pc' = "submit"
                      /\ current_activation'.country_code = L[1].country_code
                      /\ used_countries' = used_countries
                 ELSE /\ used_countries' = used_countries \cup {L[1].country_code}
                      /\ pc' = "buy" => filtered_prices' = Tail(L)
                      /\ pc' # "buy" => Len(L) = 1]_vars

\* C13 witness: the cheaper country 151 had no number, it was excluded and
\* the number was then bought in the dearer country 12
C13_Witness ==
    /\ pc = "submit"
    /\ calls = 1 /\ attempt_count = 1
    /\ trace.buy_calls = 2 /\ trace.bought = 1
    /\ trace.quoted["151"] > 0 /\ trace.quoted["151"] < trace.quoted["12"]
    /\ used_countries = {"151"}
    /\ current_activation.country_code = "12"

\* C14: buy_number is only called when the reuse store has no number
\* eligible for the service: while one is eligible the attempt uses it
C14_ReusePreferred ==
    trace.buy_calls > 0 => reusable_numbers(numbers, "go", now) = <<>>

\* C15: when the form rejects the number just purchased, that activation is
\* sent status 6, its country joins the exclusion set and the attempt
\* fails; the next purchase of the call is made in a different country
C15_RejectedNumberCancelled ==
    [][/\ (pc = "submit" /\ trace'.rejected # "none") =>
            /\ acts'[current_activation.activation_id].six
                  = acts[current_activation.activation_id].six + 1
            /\ current_activation.country_code \in used_countries'
            /\ pc' = "loop"
       /\ (trace.rejected # "none" /\ trace'.bought = trace.bought + 1) =>
            current_activation'.country_code # trace.rejected]_vars

\* C16: when the SMS wait of an attempt ends without a code, the activation
\* waited for has been sent status 6, current_activation is None and the
\* attempt has failed; the attempt loop then starts the next attempt
\* whenever fewer than 3 attempts have run
C16_NoCodeCancels ==
    [][/\ (trace.sms_end = "none" /\ trace'.sms_end = "no_code") =>
            /\ acts'[activation_id].six > 0
            /\ acts'[activation_id].eight = 0
            /\ current_activation' = None
            /\ pc' = "loop" /\ ret' = ret /\ ~success'
       /\ (pc = "loop" /\ attempt_count < 3 /\ pc' # "loop") =>
            attempt_count' = attempt_count + 1]_vars

\* C16 witness: the first wait ran out of polls, no resend button could be
\* clicked, the attempt failed without a code and another attempt may start
C16_Witness ==
    /\ pc = "loop" /\ trace.sms_end = "no_code"
    /\ attempt_count < 3
    /\ current_activation = None
    /\ \E i \in DOMAIN acts : acts[i].call = calls /\ acts[i].six > 0

\* C17: when the form signals an incorrect code, the activation has been
\* sent status 6 and never status 8, the state is not COMPLETED and the
\* attempt has failed; a number is only ever submitted right after its
\* purchase, under an activation id that no earlier purchase had
C17_WrongCodeCancels ==
    [][/\ (trace.sms_end = "none" /\ trace'.sms_end = "wrong_code") =>
            /\ acts'[activation_id].six > 0
            /\ acts'[activation_id].eight = 0
            /\ ~acts'[activation_id].won
            /\ state' # COMPLETED
            /\ pc' = "loop" /\ ret' = ret /\ ~success'
       /\ (pc # "submit" /\ pc' = "submit") =>
            /\ pc = "buy"
            /\ trace'.bought = trace.bought + 1
            /\ current_activation'.activation_id \notin DOMAIN acts
            /\ acts'[current_activation'.activation_id].six = 0]_vars

\* C17 witness: the form refused the code of an attempt, the attempt has
\* failed with the activation cancelled and another attempt may start
C17_Witness ==
    /\ pc = "loop" /\ trace.sms_end = "wrong_code"
    /\ attempt_count < 3
    /\ current_activation = None
    /\ state = WAITING_SMS
    /\ \E i \in DOMAIN acts : acts[i].call = calls /\ acts[i].six = 1 /\ acts[i].eight = 0

\* C18: an activation that was held when the number submission or the code
\* entry of an attempt raised an error has been sent status 6, and its
\* country is in the exclusion set, when the next attempt starts and when
\* handle_verification() returns
C18_ErrorCancels ==
    [][/\ (trace.errored # 0 /\ attempt_count' = attempt_count + 1) =>
            /\ acts[trace.errored].six > 0
            /\ acts[trace.errored].country \in used_countries
       /\ (trace.errored # 0 /\ pc = "finally" /\ pc' = "idle") =>
            /\ acts'[trace.errored].six > 0
            /\ acts'[trace.errored].country \in used_countries']_vars

\* C19: when handle_verification() returns with a state other than
\* COMPLETED, current_activation is None and the activation that was held
\* when the finally block started, if any, was sent status 6 by it
C19_NothingLeftDangling ==
    [][(pc = "finally" /\ pc' = "idle" /\ state' # COMPLETED) =>
          /\ current_activation' = None
          /\ current_activation # None =>
                acts'[current_activation.activation_id].six
                   = acts[current_activation.activation_id].six + 1]_vars

\* C19 witness: the attempts ran out while an activation was still held,
\* and the finally block cancelled it before the call returned failure
C19_Witness ==
    /\ pc = "idle" /\ result = "false"
    /\ state # COMPLETED
    /\ trace.exhausted
    /\ current_activation = None
    /\ \E i \in DOMAIN acts : acts[i].call = calls /\ acts[i].six = 1 /\ acts[i].eight = 0

\* C20: a NO_BALANCE answer to a purchase is fatal for the call: the
\* country that was asked is not added to the exclusion set, and the
\* request that got this answer is the last buy_number call of the
\* handle_verification() call
C20_NoBalanceIsFatal ==
    [][/\ (trace'.buy_calls = trace.buy_calls + 1 /\ trace'.no_balance) =>
            used_countries' = used_countries
       /\ (trace.no_balance /\ calls' = calls) => trace'.buy_calls = trace.buy_calls]_vars

\* SMSAPI.selected_countries.get(code, "unknown")
country_name(code) ==
    CASE code = "151" -> "Chile"
      [] code = "12" -> "Estados Unidos"
      [] code = "40" -> "Canadá"
      [] code = "16" -> "Reino Unido"
      [] code = "117" -> "Portugal"
      [] OTHER -> "unknown"

\* the value None as get_current_phone_data returns it
NoPhoneData ==
    [phone_number |-> 0, country_code |-> "none", activation_id |-> 0,
     country_name |-> "none"]

\* PhoneVerification.get_current_phone_data
get_current_phone_data(ca) ==
    IF ca # None
    THEN [phone_number |-> ca.phone_number, country_code |-> ca.country_code,
          activation_id |-> ca.activation_id,
          country_name |-> country_name(ca.country_code)]
    ELSE NoPhoneData

\* C21: after handle_verification() returned success for a purchased
\* number, get_current_phone_data() returns the phone number, country code,
\* activation id and country name of the winning activation, and not None;
\* while no activation is held it returns None
C21_PhoneDataAfterSuccess ==
    /\ (pc = "idle" /\ result = "true" /\ trace.bought > 0) =>
          \E i \in DOMAIN acts :
              /\ acts[i].won /\ acts[i].call = calls
              /\ get_current_phone_data(current_activation) # NoPhoneData
              /\ get_current_phone_data(current_activation) =
                    [phone_number |-> PhoneOf(i), country_code |-> acts[i].country,
                     activation_id |-> i, country_name |-> country_name(acts[i].country)]
    /\ current_activation = None =>
          get_current_phone_data(current_activation) = NoPhoneData

\* C22: COMPLETED and FAILED are terminal: once the state is COMPLETED or
\* FAILED no step of the orchestrator, a later handle_verification() call
\* included, changes it
C22_TerminalStates ==
    [][(state = COMPLETED \/ state = FAILED) => state' = state]_vars

\* C23: the SMS wait of one attempt runs at most two resend attempts, and a
\* resend attempt goes on to wait for the button and click it, and a
\* get_sms_code call after a resend begins, only while at least 30 s of the
\* 180 s budget remain, the budget being counted from the start of the SMS
\* wait across the first wait and all resend cycles
C23_ResendBudget ==
    [][/\ resent_attempt' <= 2
       /\ (resent_attempt' = resent_attempt + 1 /\ elapsed' # elapsed) =>
             180 - elapsed >= 30
       /\ ~trace'.short_repoll]_vars

\* C23 witness: the second resend of an SMS wait was clicked and the poll
\* that followed it brought the code
C23_Witness ==
    /\ pc = "resend"
    /\ resent_attempt = 2
    /\ sms_code
    /\ elapsed > 0 /\ elapsed <= 180

\* C24: get_sms_code(activation_id, max_attempts, interval) makes at most
\* max_attempts polls; it stops at the first poll answered STATUS_OK or
\* STATUS_CANCEL: with the code for STATUS_OK, with None and without a
\* status 6 request for STATUS_CANCEL; when max_attempts polls brought
\* neither, it sends status 6 exactly once and returns None
C24_PollProtocol ==
    (op.name = "get_sms_code" /\ op.done) =>
        LET decisive == {k \in 1..op.max_attempts :
                            op.answers[k] \in {"STATUS_OK", "STATUS_CANCEL"}}
            first == CHOOSE k \in decisive : \A j \in decisive : k <= j
        IN /\ op.polls <= op.max_attempts
           /\ IF decisive = {}
              THEN /\ op.polls = op.max_attempts
                   /\ ~op.code
                   /\ acts[PolledId].six = 1
              ELSE /\ op.polls = first
                   /\ op.code = (op.answers[first] = "STATUS_OK")
                   /\ acts[PolledId].six = 0

\* C24 witness: two polls were answered with an error and a wait, the third
\* and last allowed poll brought the code
C24_Witness ==
    /\ op.name = "get_sms_code" /\ op.done
    /\ op.max_attempts = 3
    /\ op.answers[1] = "ERROR" /\ op.answers[2] = "STATUS_WAIT"
    /\ op.answers[3] = "STATUS_OK"
    /\ op.code /\ op.polls = 3

\* C25: get_reusable_number(service) returns None exactly when no entry is
\* within the reuse window and untagged for the service; otherwise it
\* returns such an entry, one that did not carry the service tag before the
\* call, with the least use count among them and the earliest in store
\* order among those of that count
C25_LeastUsedUntagged ==
    [][op'.name = "get_reusable_number" =>
        LET eligible == {i \in 1..Len(numbers) :
                            /\ now - numbers[i].first_used < 1800
                            /\ now - numbers[i].last_used < 1800
                            /\ \A k \in 1..Len(numbers[i].services) :
                                   numbers[i].services[k] # op'.service}
        IN /\ (op'.ret = NoNumber) <=> (eligible = {})
           /\ op'.ret # NoNumber =>
                 \E i \in eligible :
                     /\ op'.ret.phone_number = numbers[i].phone_number
                     /\ op'.ret.first_used = numbers[i].first_used
                     /\ \A j \in eligible :
                            \/ numbers[i].times_used < numbers[j].times_used
                            \/ /\ numbers[i].times_used = numbers[j].times_used
                               /\ i <= j]_vars

\* C25 witness: of two entries eligible for the service, the second in store
\* order was returned because the first had been used once more
C25_Witness ==
    /\ op.name = "get_reusable_number"
    /\ Len(numbers) = 2 /\ op.had = 2
    /\ op.ret = numbers[2]
    /\ numbers[2].times_used = 2
    /\ numbers[1].times_used = 2
    /\ \A k \in 1..Len(numbers[1].services) : numbers[1].services[k] # op.service
    /\ now - numbers[1].last_used < 1800

\* C26: get_reusable_number never returns an entry first used 1800 s or
\* more before the call, whatever its last_used, and when the call returns
\* the store holds no such entry and still holds every entry first used
\* less than 1800 s before
C26_WindowFromFirstUse ==
    [][op'.name = "get_reusable_number" =>
        /\ op'.ret # NoNumber => now - op'.ret.first_used < 1800
        /\ \A k \in 1..Len(numbers') : now - numbers'[k].first_used < 1800
        /\ \A i \in 1..Len(numbers) :
              now - numbers[i].first_used < 1800 =>
                  \E k \in 1..Len(numbers') :
                      numbers'[k].phone_number = numbers[i].phone_number]_vars

\* C26 witness: a call made one window after the first entry was first used
\* found two entries, purged one and returned the other
C26_Witness ==
    /\ op.name = "get_reusable_number"
    /\ now = 1800
    /\ op.had = 2 /\ Len(numbers) = 1
    /\ op.ret = numbers[1]
    /\ op.ret.first_used = 1800

\* C27: in a store that started empty, every entry has
\* first_used <= last_used after any sequence of add_number,
\* get_reusable_number, mark_number_used and remove_number calls
C27_FirstBeforeLast ==
    \A i \in 1..Len(numbers) : numbers[i].first_used <= numbers[i].last_used

\* C27 witness: an entry first used at time 0 was marked used one window
\* later
C27_Witness ==
    /\ op.name = "mark_number_used" /\ op.ret
    /\ \E i \in 1..Len(numbers) :
          /\ numbers[i].phone_number = op.phone
          /\ numbers[i].first_used = 0 /\ numbers[i].last_used = 1800

\* C28: a number the orchestrator recorded after a successful verification
\* is not returned by the next get_reusable_number call for "go", the
\* service the orchestrator bought the number for and verified
C28_NotReofferedForSameService ==
    [][(/\ op.name = "add_number" /\ op.caller = "orchestrator"
        /\ op'.name = "get_reusable_number" /\ op'.service = "go") =>
            op'.ret.phone_number # op.phone]_vars

\* C29: a get_reusable_number(service) call that returns an entry leaves the
\* non-expired entries in their order, returns the selected one as it is
\* stored after the call, with its use count one higher, the service added
\* to its tags, last_used set to the time of the call and its phone number,
\* country code, activation id and first_used as before, and leaves every
\* other non-expired entry as it was
C29_CheckoutFrame ==
    [][(op'.name = "get_reusable_number" /\ op'.ret # NoNumber) =>
        LET kept == SelectSeq(numbers, LAMBDA n : now - n.first_used < 1800)
        IN /\ Len(numbers') = Len(kept)
           /\ \E i \in 1..Len(kept) :
                 /\ numbers'[i] = op'.ret
                 /\ op'.ret.times_used = kept[i].times_used + 1
                 /\ op'.ret.services = Append(kept[i].services, op'.service)
                 /\ op'.ret.last_used = now
                 /\ op'.ret.phone_number = kept[i].phone_number
                 /\ op'.ret.country_code = kept[i].country_code
                 /\ op'.ret.activation_id = kept[i].activation_id
                 /\ op'.ret.first_used = kept[i].first_used
                 /\ \A j \in 1..Len(kept) : j # i => numbers'[j] = kept[j]]_vars

\* C29 witness: an entry recorded for gmail at time 0 and bought under
\* activation id 1 was checked out for "go" one tick before its window ends,
\* next to another entry of the store
C29_Witness ==
    /\ op.name = "get_reusable_number" /\ op.service = "go"
    /\ Len(numbers) = 2 /\ op.had = 2
    /\ op.ret = numbers[1]
    /\ op.ret.services = <<"gmail", "go">>
    /\ op.ret.times_used = 2
    /\ op.ret.activation_id = IdAt(op.ret.phone_number, 0)

\* C30: add_number, given a phone number, a country code and an activation
\* id, for a phone number the store holds adds 1 to that
\* entry's use count, sets its last_used to the time of the call, appends
\* the service to its tags only if absent, and changes nothing else, the
\* number of entries included; for a phone number the store does not hold it
\* appends exactly one entry with use count 1, the service as its only tag
\* and first_used = last_used = the time of the call
C30_AddOrTouch ==
    [][(/\ op'.name = "add_number"
        /\ op'.phone # 0 /\ op'.country # "none" /\ op'.id # 0) =>
        LET held == {i \in 1..Len(numbers) : numbers[i].phone_number = op'.phone}
        IN IF held # {}
           THEN /\ Len(numbers') = Len(numbers)
                /\ \A i \in 1..Len(numbers) :
                      IF i \in held
                      THEN /\ numbers'[i].times_used = numbers[i].times_used + 1
                           /\ numbers'[i].last_used = now
                           /\ numbers'[i].first_used = numbers[i].first_used
                           /\ numbers'[i].phone_number = numbers[i].phone_number
                           /\ numbers'[i].country_code = numbers[i].country_code
                           /\ numbers'[i].activation_id = numbers[i].activation_id
                           /\ numbers'[i].services =
                                 IF \E k \in 1..Len(numbers[i].services) :
                                        numbers[i].services[k] = op'.service
                                 THEN numbers[i].services
                                 ELSE Append(numbers[i].services, op'.service)
                      ELSE numbers'[i] = numbers[i]
           ELSE numbers' = Append(numbers,
                    [phone_number |-> op'.phone, country_code |-> "151",
                     activation_id |-> IdAt(op'.phone, now),
                     first_used |-> now, last_used |-> now,
                     services |-> <<op'.service>>, times_used |-> 1])]_vars

\* C30 witness: a phone number added at time 0 for one service was added
\* again one window later for the other, under another activation id
C30_Witness ==
    /\ op.name = "add_number" /\ now = 1800
    /\ \E i \in 1..Len(numbers) :
          /\ numbers[i].phone_number = op.phone
          /\ numbers[i].times_used = 2
          /\ numbers[i].first_used = 0 /\ numbers[i].last_used = 1800
          /\ Len(numbers[i].services) = 2
          /\ numbers[i].activation_id = IdAt(op.phone, 0)
          /\ numbers[i].activation_id # IdAt(op.phone, now)

\* C31: remove_number(phone) deletes the entry with that phone number and
\* returns True, leaving the other entries and their order as they were;
\* when no entry matches it returns False and leaves the store as it was
C31_RemoveFrame ==
    [][op'.name = "remove_number" =>
        LET held == {i \in 1..Len(numbers) : numbers[i].phone_number = op'.phone}
        IN IF held = {}
           THEN ~op'.ret /\ numbers' = numbers
           ELSE /\ op'.ret
                /\ Len(numbers') = Len(numbers) - 1
                /\ \A k \in 1..Len(numbers') : numbers'[k].phone_number # op'.phone
                /\ \E i \in held :
                      \A k \in 1..Len(numbers') :
                          numbers'[k] = IF k < i THEN numbers[k] ELSE numbers[k + 1]]_vars

\* C31 witness: of two entries the one with the first phone number was
\* removed, and the other, stored one clock tick ago or more, is still there
C31_Witness ==
    /\ op.name = "remove_number" /\ op.ret
    /\ op.phone = PhoneOf(1)
    /\ Len(numbers) = 1
    /\ numbers[1].phone_number = PhoneOf(2)
    /\ numbers[1].first_used < now

\* C32: every mutation is flushed before the call returns: after each
\* add_number, get_reusable_number, mark_number_used or remove_number call
\* on a single store instance the list in the storage file equals the list
\* in memory
C32_FlushedOnReturn == file = numbers

\* C32 witness: a checkout changed an entry in memory and the file holds the
\* changed entry
C32_Witness ==
    /\ op.name = "get_reusable_number" /\ op.ret # NoNumber
    /\ \E i \in 1..Len(file) : file[i] = op.ret /\ numbers[i] = op.ret

\* C40: starting from an empty store, no two entries ever have the same
\* phone number; and add_number with an empty phone number, country code or
\* activation id returns False and leaves the store and the file as they
\* were
C40_UniquePhones ==
    [][/\ \A i, j \in 1..Len(numbers') :
             i # j => numbers'[i].phone_number # numbers'[j].phone_number
       /\ (/\ op'.name = "add_number"
           /\ (op'.phone = 0 \/ op'.country = "none" \/ op'.id = 0)) =>
             /\ ~op'.ret
             /\ numbers' = numbers
             /\ file' = file]_vars

\* C40 witness: the store holds two phone numbers, one of them added twice,
\* and an add_number call without a phone number was turned down
C40_Witness ==
    /\ op.name = "add_number" /\ op.phone = 0 /\ ~op.ret
    /\ Len(numbers) = 2
    /\ numbers[1].phone_number # numbers[2].phone_number
    /\ numbers[1].times_used = 2
    /\ file = numbers

\* C33: with two instances on one file the file is last-writer-wins: after
\* each mutation the file holds exactly the list in memory of the instance
\* that made it, so an entry of the file that this instance did not have in
\* memory (another instance added it after this one loaded) is gone from
\* the file
C33_LastWriterWins ==
    [][(op'.name \in {"add_number", "remove_number"} /\ op'.wrote) =>
        LET mine == IF op'.instance = 1 THEN numbers ELSE numbers2
            mine_after == IF op'.instance = 1 THEN numbers' ELSE numbers2'
        IN /\ file' = mine_after
           /\ \A i \in 1..Len(file) :
                 (/\ file[i].phone_number # op'.phone
                  /\ \A j \in 1..Len(mine) :
                        mine[j].phone_number # file[i].phone_number) =>
                     \A k \in 1..Len(file') :
                         file'[k].phone_number # file[i].phone_number]_vars

\* C33 witness: instance 1 added the first phone number and still has it in
\* memory; instance 2, created before that, then added the second one, and
\* the file holds the second phone number only
C33_Witness ==
    /\ op.name = "add_number" /\ op.instance = 2 /\ op.phone = PhoneOf(2)
    /\ Len(numbers) = 1 /\ numbers[1].phone_number = PhoneOf(1)
    /\ Len(numbers2) = 1 /\ numbers2[1].phone_number = PhoneOf(2)
    /\ file = numbers2

\* C34: get_cheapest_country(service) returns the allow-listed country of
\* least price among those quoted for the service with stock > 0, the first
\* in allow-list order among those of that price, together with that
\* price; it returns (None, None) when no allow-listed country has stock or
\* the prices could not be obtained
C34_CheapestInStock ==
    (op.name = "get_cheapest_country" /\ op.done) =>
        LET q == op.prices.of
            stocked == {i \in 1..Len(selected_countries) :
                           /\ op.prices.known
                           /\ q[selected_countries[i]].quoted
                           /\ q[selected_countries[i]].count > 0}
        IN IF stocked = {}
           THEN op.ret = NoCountry
           ELSE \E i \in stocked :
                   /\ op.ret.country_code = selected_countries[i]
                   /\ op.ret.price = q[selected_countries[i]].cost
                   /\ \A j \in stocked :
                          \/ op.ret.price < q[selected_countries[j]].cost
                          \/ /\ op.ret.price = q[selected_countries[j]].cost
                             /\ i <= j

\* C34 witness: the first allow-listed country is cheaper but out of stock,
\* and the second, dearer one is returned with its price
C34_Witness ==
    /\ op.name = "get_cheapest_country" /\ op.done
    /\ op.prices.known
    /\ op.prices.of["151"] = [quoted |-> TRUE, cost |-> 10, count |-> 0]
    /\ op.prices.of["12"] = [quoted |-> TRUE, cost |-> 20, count |-> 5]
    /\ op.ret = [country_code |-> "12", price |-> 20]

\* C35: once status 6 was sent for an activation, the client makes no
\* further getStatus poll and sends no status 8 for it; in particular the
\* resend cycle does not call get_sms_code again for an activation that the
\* first get_sms_code cancelled when its polls ran out
C35_NoPollAfterCancel ==
    /\ ~trace.repolled
    /\ \A i \in DOMAIN acts :
          /\ ~acts[i].poll_after_six
          /\ (acts[i].six > 0 /\ acts[i].eight > 0) => acts[i].six_after_won

\* C36: each purchased activation is sent status 6 at most once during a
\* handle_verification() call, whichever of get_sms_code, _cancel_number,
\* _cancel_current_number and the final cleanup sends it
C36_CancelledAtMostOnce ==
    /\ ~trace.recancelled
    /\ \A i \in DOMAIN acts : acts[i].six <= 1

\* C37: a received code is typed into the form only if at least 10 s of the
\* 180 s SMS budget remain when it is received; otherwise the activation
\* has been sent status 6 and never status 8, its country is excluded, and
\* the attempt fails without the code being entered
C37_LateCodeDiscarded ==
    [][/\ (trace.sms_end = "none"
           /\ trace'.sms_end \in {"accepted", "wrong_code", "error"}) =>
             sms_code /\ 180 - elapsed >= 10
       /\ (trace.sms_end = "none" /\ sms_code /\ 180 - elapsed < 10
           /\ trace'.sms_end # "none") =>
             /\ trace'.sms_end = "late"
             /\ acts'[activation_id].six > 0
             /\ acts'[activation_id].eight = 0
             /\ ~acts'[activation_id].won
             /\ acts'[activation_id].country \in used_countries'
             /\ state' # COMPLETED
             /\ pc' = "loop" /\ ret' = ret /\ ~success']_vars

\* C37 witness: the code of an attempt came in with less than 10 s left and
\* the attempt has failed with the activation cancelled
C37_Witness ==
    /\ pc = "loop" /\ trace.sms_end = "late"
    /\ current_activation = None
    /\ \E i \in DOMAIN acts :
          /\ acts[i].call = calls /\ acts[i].six > 0 /\ acts[i].eight = 0
          /\ acts[i].country \in used_countries

\* C39: an attempt whose re-affirmation of the phone step fails is the second
\* or the third one, makes no buy_number call, counts toward the ceiling of
\* 3 attempts, and leaves current_activation and used_countries as they were
C39_FailedReaffirmation ==
    [][(pc = "loop" /\ pc' = "loop" /\ trace'.off_screen) =>
          /\ attempt_count' \in {2, 3}
          /\ attempt_count' = attempt_count + 1
          /\ trace'.buy_calls = trace.buy_calls
          /\ current_activation' = current_activation
          /\ used_countries' = used_countries]_vars

\* C39 witness: the third attempt stopped at the re-affirmation, after an
\* attempt that bought a number and excluded its country
C39_Witness ==
    /\ pc = "loop" /\ trace.off_screen
    /\ attempt_count = 3
    /\ trace.buy_calls = 1
    /\ used_countries # {}

\* C38: under fair scheduling every handle_verification() call that has
\* begun comes to its end and hands a return value, True or False, to its
\* caller
C38_Terminates ==
    (pc # "idle") ~> (pc = "idle" /\ result \in {"true", "false"})

\* C38 witness: a call has returned after running all its loops: three
\* attempts, a purchase, a rejected submission and an SMS wait with a resend
C38_Witness ==
    /\ pc = "idle" /\ result = "false"
    /\ trace.exhausted
    /\ trace.buy_calls >= 2
    /\ trace.rejected # "none"
    /\ trace.repolled \/ trace.recancelled
====
